---- MODULE Spec2Model ----
(***************************************************************************)
(* A model of syncflux.py: the collection of points from the configured    *)
(* Syncthing sources (main, lines 103-171), their dispatch to the InfluxDB  *)
(* sinks (main, lines 173-186), the argument checks (lines 208-230) and    *)
(* the pass loop (lines 232-258).                                          *)
(***************************************************************************)
EXTENDS Integers, Sequences, FiniteSets, TLC

\* ------------------------------------------------------------------ bounds

\* Passes the model follows before it stops watching (index < MaxPasses).
MaxPasses == 2

\* Largest duration, in seconds, of one timed span (one source's queries,
\* or the rest of a pass).
MaxTick == 1

\* ------------------------------------------------------------ Python values

\* Python's None, for the optional command-line arguments.
None == "<None>"

\* The empty dict.
EmptyDict == [k \in {} |-> ""]

\* dict.update: d overlaid with other; a key of both takes other's value.
Update(d, other) ==
    [k \in (DOMAIN d) \cup (DOMAIN other) |->
        IF k \in DOMAIN other THEN other[k] ELSE d[k]]

\* ------------------------------------------------------------ configuration

\* One entry of syncthings: the name AppConfiguration._load_dict adds, and
\* the static tags.
SyncHome   == [name |-> "home",   tags |-> EmptyDict]
SyncLab    == [name |-> "lab",    tags |-> [cfg_name |-> "spoof", site |-> "hq"]]
SyncOffice == [name |-> "office", tags |-> [site |-> "branch"]]

\* The configuration sets a config file can hold. syncthings and influxes
\* are dicts; a sequence keeps their iteration (insertion) order.
CfgA == [syncthings   |-> <<SyncHome, SyncLab>>,
         influxes     |-> <<"ia", "ib">>,
         measurements |-> [devices |-> "devices", folders |-> "folders"]]
CfgB == [syncthings   |-> <<SyncOffice>>,
         influxes     |-> <<"ib">>,
         measurements |-> [devices |-> "st_dev", folders |-> "st_fold"]]

\* What a path holds on disk: no regular file, or a config file.
Absent == "absent"
Contents == {Absent, "A", "B"}

\* load_app_config: the configuration set a file's content parses to.
load_app_config(content) == IF content = "A" THEN CfgA ELSE CfgB

\* LoadedConfig keeping, from the second pass on, what the first pass loaded.
LoadedConfigCached(current, passes_done, content) ==
    IF passes_done > 0 THEN current ELSE load_app_config(content)

\* Line 242: the configuration set that becomes the global config when a
\* file holding content is loaded, current being the global config so far
\* and passes_done the passes completed.
LoadedConfig(current, passes_done, content) == load_app_config(content)

\* The global config before the first load.
NoConfig == [syncthings   |-> <<>>,
             influxes     |-> <<>>,
             measurements |-> [devices |-> "", folders |-> ""]]

\* ------------------------------------------------------- source responses

Dev(id, name) == [deviceID |-> id, name |-> name]
Fold(id, label, path) == [id |-> id, label |-> label, path |-> path]

\* What conn.system.config() can return: the default folder's device list
\* (its first entry is the own device), the devices and the folders.
TopoFull ==
    [defaults |-> <<Dev("d0", "me")>>,
     devices  |-> <<Dev("d1", "alpha"), Dev("d0", "me"), Dev("d2", "cfg_name")>>,
     folders  |-> <<Fold("f1", "docs", "/srv/docs"), Fold("f2", "pics", "/srv/pics")>>]
TopoNoSelf ==
    [defaults |-> <<Dev("d0", "me")>>,
     devices  |-> <<Dev("d1", "alpha")>>,
     folders  |-> <<Fold("f1", "docs", "/srv/docs")>>]
TopoAlone ==
    [defaults |-> <<Dev("d0", "me")>>,
     devices  |-> <<Dev("d0", "me")>>,
     folders  |-> <<>>]
Topologies == {TopoFull, TopoNoSelf, TopoAlone}

SeqRange(s) == {s[i] : i \in 1..Len(s)}
OwnId(topo) == topo.defaults[1].deviceID
RemoteIds(topo) == {d.deviceID : d \in SeqRange(topo.devices)} \ {OwnId(topo)}
FolderIds(topo) == {f.id : f \in SeqRange(topo.folders)}

\* lastSeen of a device, already parsed to seconds, and the completion the
\* source reports for a folder.
LastSeen == [d \in {"d1", "d2"} |-> IF d = "d1" THEN 7 ELSE 12]
Completion == [f \in {"f1", "f2"} |-> IF f = "f1" THEN 87 ELSE 100]

\* datetime.datetime.now(tz=pytz.UTC), in seconds.
Nows == {10}

\* What one source answers during one collection:
\*   config_raises: conn.system.config() raises;
\*   stats_raises:  conn.stats.device() raises;
\*   answers: both return; stats is the device-stats dict, complFails the
\*            folders whose completion query raises, now the wall clock and
\*            dq the time the queries take.
Responses ==
    {[kind |-> "config_raises"]}
    \cup {[kind |-> "stats_raises", topo |-> tp] : tp \in Topologies}
    \cup UNION {
           {[kind |-> "answers", topo |-> tp,
             stats |-> [d \in ids |-> [lastSeen |-> LastSeen[d]]],
             complFails |-> cf, now |-> n, dq |-> q] :
               ids \in SUBSET RemoteIds(tp), cf \in SUBSET FolderIds(tp),
               n \in Nows, q \in 0..MaxTick} : tp \in Topologies}

NoResponse == [kind |-> "none"]

\* ---------------------------------------------------------------- collector

\* Lines 108-110: the proto-tags of a source before it is queried.
InitialProtoTags(sync) ==
    IF DOMAIN sync.tags # {}
    THEN Update([cfg_name |-> sync.name], sync.tags)
    ELSE [cfg_name |-> sync.name]

\* DeviceTags with the device id stored under the identity key.
DeviceTagsUnderIdentityKey(device) == [cfg_name |-> device.deviceID, name |-> device.name]

\* DeviceFields that stores the age under q_elapsed too.
DeviceFieldsWithElapsed(now, stats) ==
    [last_seen_since_sec |-> now - stats.lastSeen, q_elapsed |-> now - stats.lastSeen]

\* Lines 135-138 and 139-141: the tags and fields of one remote device.
DeviceTags(device) == [id |-> device.deviceID, name |-> device.name]
DeviceFields(now, stats) == [last_seen_since_sec |-> now - stats.lastSeen]

\* Lines 149 and 150: the tags and fields of one folder.
FolderTags(folder) == [id |-> folder.id, label |-> folder.label, path |-> folder.path]
FolderFields(completion) == [completion |-> completion]

\* Lines 126-142, from device i on: the own device gives my_name, any other
\* device is looked up in device_stats (a missing key raises KeyError) and
\* appended to remote_devices.
RECURSIVE DeviceLoop(_, _, _, _, _)
DeviceLoop(r, my_id, i, proto_tags, remote_devices) ==
    IF i > Len(r.topo.devices)
    THEN [raised |-> "none", proto_tags |-> proto_tags, remote_devices |-> remote_devices]
    ELSE LET device == r.topo.devices[i]
             device_id == device.deviceID
         IN  IF device_id = my_id
             THEN DeviceLoop(r, my_id, i + 1,
                             Update(proto_tags, [my_name |-> device.name]),
                             remote_devices)
             ELSE IF device_id \notin DOMAIN r.stats
             THEN [raised |-> "KeyError", proto_tags |-> proto_tags,
                   remote_devices |-> remote_devices]
             ELSE DeviceLoop(r, my_id, i + 1, proto_tags,
                             Append(remote_devices,
                                    [tags   |-> DeviceTags(device),
                                     fields |-> DeviceFields(r.now, r.stats[device_id])]))

\* Lines 144-151, from folder i on: one completion query per folder; a query
\* that raises is not caught.
RECURSIVE FolderLoop(_, _, _)
FolderLoop(r, i, folders) ==
    IF i > Len(r.topo.folders)
    THEN [raised |-> "none", folders |-> folders]
    ELSE LET folder == r.topo.folders[i]
         IN  IF folder.id \in r.complFails
             THEN [raised |-> "CompletionError", folders |-> folders]
             ELSE FolderLoop(r, i + 1,
                             Append(folders,
                                    [tags   |-> FolderTags(folder),
                                     fields |-> FolderFields(Completion[folder.id])]))

\* MakePoint that lays the fields over the tags as well.
MakePointFieldsInTags(measurement, proto_tags, proto_fields, entity) ==
    [measurement |-> measurement,
     tags        |-> Update(Update(proto_tags, entity.tags), proto_fields),
     fields      |-> Update(proto_fields, entity.fields)]

\* Lines 157-161 and 166-170: one point, the entity's tags and fields laid
\* over copies of the proto-tags and proto-fields.
MakePoint(measurement, proto_tags, proto_fields, entity) ==
    [measurement |-> measurement,
     tags        |-> Update(proto_tags, entity.tags),
     fields      |-> Update(proto_fields, entity.fields)]

\* SourcePoints with the folder points first, and SourcePoints that starts
\* at the second remote device.
SourcePointsFoldersFirst(cfg, proto_tags, proto_fields, remote_devices, folders) ==
    [i \in 1..Len(folders) |->
        MakePoint(cfg.measurements.folders, proto_tags, proto_fields, folders[i])]
    \o
    [i \in 1..Len(remote_devices) |->
        MakePoint(cfg.measurements.devices, proto_tags, proto_fields, remote_devices[i])]
SourcePointsSkipFirst(cfg, proto_tags, proto_fields, remote_devices, folders) ==
    LET rest == IF remote_devices = <<>> THEN <<>> ELSE Tail(remote_devices)
    IN  [i \in 1..Len(rest) |->
            MakePoint(cfg.measurements.devices, proto_tags, proto_fields, rest[i])]
        \o
        [i \in 1..Len(folders) |->
            MakePoint(cfg.measurements.folders, proto_tags, proto_fields, folders[i])]

\* Lines 155-171: the device points, then the folder points.
SourcePoints(cfg, proto_tags, proto_fields, remote_devices, folders) ==
    [i \in 1..Len(remote_devices) |->
        MakePoint(cfg.measurements.devices, proto_tags, proto_fields, remote_devices[i])]
    \o
    [i \in 1..Len(folders) |->
        MakePoint(cfg.measurements.folders, proto_tags, proto_fields, folders[i])]

\* Lines 107-171, one iteration of the source loop against the response r:
\* the exception it raises ("none" when it completes) and the points it
\* appends to the batch.
Collect(cfg, sync, r) ==
    IF r.kind = "config_raises"
    THEN [raised |-> "ConfigQueryError", points |-> <<>>]
    ELSE LET my_id == OwnId(r.topo)
             tags1 == Update(InitialProtoTags(sync), [my_id |-> my_id])
         IN  IF r.kind = "stats_raises"
             THEN [raised |-> "StatsQueryError", points |-> <<>>]
             ELSE LET dl == DeviceLoop(r, my_id, 1, tags1, <<>>)
                      fl == FolderLoop(r, 1, <<>>)
                      proto_fields == [q_elapsed |-> r.dq]
                  IN  IF dl.raised # "none"
                      THEN [raised |-> dl.raised, points |-> <<>>]
                      ELSE IF fl.raised # "none"
                      THEN [raised |-> fl.raised, points |-> <<>>]
                      ELSE [raised |-> "none",
                            points |-> SourcePoints(cfg, dl.proto_tags, proto_fields,
                                                    dl.remote_devices, fl.folders)]

\* Propagates with a handler that skips a source whose entity queries fail.
PropagatesConnectionOnly(raised) == raised \in {"ConfigQueryError", "StatsQueryError"}

\* Lines 106-171 hold no try statement: whatever a query raises leaves the
\* source loop and main.
Propagates(raised) == raised # "none"

\* ------------------------------------------------------------ sink dispatch

\* ShouldSend without the test of line 173.
ShouldSendAlways(batch) == TRUE

\* Lines 173-174: main sends only a non-empty batch.
ShouldSend(batch) == batch # <<>>

\* OnSendError re-raising whatever the flag says, and never re-raising.
OnSendErrorAlwaysRaise(halt_on_send_error) == "raise"
OnSendErrorNeverRaise(halt_on_send_error) == "continue"

\* Lines 182-186: what the except clause does with a failed send.
OnSendError(halt_on_send_error) == IF halt_on_send_error THEN "raise" ELSE "continue"

\* --------------------------------------------------------------- scheduler

\* LastOne that never recognises the final pass.
LastOneNever(count, idx) == FALSE

\* Line 248.
LastOne(count, idx) == (count > 0) /\ (idx = count)

\* SleepTime with remaining >= 0 for the test of line 251.
SleepTimeNonStrict(wait, last_one, elapsed_time) ==
    IF ~last_one
    THEN LET remaining == wait - elapsed_time
         IN  IF remaining >= 0 THEN wait ELSE 0
    ELSE 0

\* Lines 249-254: the seconds the pass loop sleeps after a pass that took
\* elapsed seconds (0: it does not sleep).
SleepTime(wait, last_one, elapsed_time) ==
    IF ~last_one
    THEN LET remaining == wait - elapsed_time
         IN  IF remaining > 0 THEN wait ELSE 0
    ELSE 0

\* ---------------------------------------------------------- argument checks

DefaultConfig == "syncflux.yml"
ConfigArgs    == {None, "", DefaultConfig}
ConfigDirArgs == {None, "conf.d"}
Counts        == (-1)..MaxPasses
Waits         == {0, 1, 2}

\* The paths the program can be told to open: --config is left out or
\* names the file of the default path.
Paths == {DefaultConfig}

\* The names a directory can hold, in the order sorted() gives them, and
\* what os.path.splitext(...)[1].lower() makes of each.
NameOrder == <<"B.YML", "a.yml", "notes.txt">>
LowerExt == [n \in SeqRange(NameOrder) |-> IF n = "notes.txt" THEN ".txt" ELSE ".yml"]
Listings == SUBSET SeqRange(NameOrder)

\* sorted(os.listdir(...)) of a directory holding the names of listing.
Sorted(listing) == SelectSeq(NameOrder, LAMBDA n : n \in listing)

\* Lines 225-230: the .yml files of a directory, in sorted order.
YmlFiles(listing) == SelectSeq(Sorted(listing), LAMBDA n : LowerExt[n] = ".yml")

\* ------------------------------------------------------------------- state

VARIABLES
    args,          \* the parsed command line
    disk,          \* what each path holds
    pc,            \* where the program is: "args", "while", "files", "open",
                   \* "main", or ended: "done", "usage_error", "crashed"
    exc,           \* why it ended, "none" while it runs or ends normally
    config_files,  \* lines 222-230
    index,         \* passes completed
    fileIdx,       \* position of the for loop of line 239
    config,        \* the global configuration set
    replaced,      \* the configuration set the last load replaced
    points,        \* main's batch
    srcIdx,        \* position of the source loop of line 106
    resp,          \* what the source collected last answered
    sinkIdx,       \* position of the sink loop of line 176
    writes,        \* the write_points calls made since main was entered
    origin,        \* for each point of the batch, the position of its source
    traceback_printed,  \* a send error was caught and printed (line 186)
    t,             \* seconds since started (line 238)
    elapsed,       \* line 244
    slept          \* seconds slept after the last pass, 0 if none

vars == <<args, disk, pc, exc, config_files, index, fileIdx, config, replaced, points,
          srcIdx, resp, sinkIdx, writes, origin, traceback_printed, t, elapsed,
          slept>>

Init ==
    /\ args \in [config : ConfigArgs, config_dir : ConfigDirArgs, count : Counts,
                 wait : Waits, halt_on_send_error : BOOLEAN]
    /\ disk \in [Paths -> Contents]
    /\ pc = "args"
    /\ exc = "none"
    /\ config_files = <<>>
    /\ index = 0
    /\ fileIdx = 1
    /\ config = NoConfig
    /\ replaced = NoConfig
    /\ points = <<>>
    /\ srcIdx = 1
    /\ resp = NoResponse
    /\ sinkIdx = 1
    /\ writes = <<>>
    /\ origin = <<>>
    /\ traceback_printed = FALSE
    /\ t = 0
    /\ elapsed = 0
    /\ slept = 0

Running == pc \in {"args", "while", "files", "open", "main"}

\* The program ends with the exception e (SystemExit for parser.error).
Ends(how, e) ==
    /\ pc' = how
    /\ exc' = e

\* Lines 208-230.
CheckArgs ==
    /\ pc = "args"
    /\ LET cfg == IF args.config = None THEN DefaultConfig ELSE args.config
       IN  /\ args' = [args EXCEPT !.config = cfg]
           /\ IF (cfg # None) /\ (args.config_dir # None)
              THEN Ends("usage_error", "config_and_config_dir") /\ UNCHANGED config_files
              ELSE IF args.count = 0
              THEN Ends("usage_error", "count_zero") /\ UNCHANGED config_files
              ELSE IF args.wait <= 0
              THEN Ends("usage_error", "wait_not_positive") /\ UNCHANGED config_files
              ELSE IF cfg # ""
              THEN /\ config_files' = <<cfg>>
                   /\ pc' = "while"
                   /\ UNCHANGED exc
              ELSE \E listing \in Listings :
                      IF YmlFiles(listing) = <<>>
                      THEN /\ config_files' = <<>>
                           /\ pc' = "while"
                           /\ UNCHANGED exc
                      ELSE \* os.path.join(None, file_name)
                           Ends("crashed", "TypeError") /\ UNCHANGED config_files
    /\ UNCHANGED <<disk, index, fileIdx, config, replaced, points, srcIdx, resp, sinkIdx,
                   writes, origin, traceback_printed, t, elapsed, slept>>

\* Lines 233-238: another pass starts.
PassStart ==
    /\ pc = "while"
    /\ args.count < 0 \/ index < args.count
    /\ index < MaxPasses
    /\ pc' = "files"
    /\ fileIdx' = 1
    /\ t' = 0
    /\ UNCHANGED <<args, disk, exc, config_files, index, config, replaced, points, srcIdx,
                   resp, sinkIdx, writes, origin, traceback_printed, elapsed, slept>>

\* Line 233: the loop ends and so does the program.
LoopExit ==
    /\ pc = "while"
    /\ ~(args.count < 0 \/ index < args.count)
    /\ pc' = "done"
    /\ UNCHANGED <<args, disk, exc, config_files, index, fileIdx, config, replaced, points,
                   srcIdx, resp, sinkIdx, writes, origin, traceback_printed, t,
                   elapsed, slept>>

\* Lines 239-241: os.path.isfile is asked about the next config file; a
\* path that is no regular file ends the program with "Cannot open".
CheckIsFile ==
    /\ pc = "files"
    /\ fileIdx <= Len(config_files)
    /\ LET config_file == config_files[fileIdx]
       IN  IF disk[config_file] = Absent
           THEN Ends("usage_error", "cannot_open")
           ELSE pc' = "open" /\ UNCHANGED exc
    /\ UNCHANGED <<args, disk, config_files, index, fileIdx, config, replaced, points,
                   srcIdx, resp, sinkIdx, writes, origin, traceback_printed, t,
                   elapsed, slept>>

\* Lines 242-243: the config file is opened and loaded, and main is entered;
\* open raises FileNotFoundError, which nothing catches, when the file was
\* removed since os.path.isfile saw it.
LoadConfig ==
    /\ pc = "open"
    /\ LET config_file == config_files[fileIdx]
       IN  IF disk[config_file] = Absent
           THEN /\ Ends("crashed", "FileNotFoundError")
                /\ UNCHANGED <<config, replaced, points, srcIdx, sinkIdx, writes, origin, resp>>
           ELSE /\ config' = LoadedConfig(config, index, disk[config_file])
                /\ replaced' = config
                /\ pc' = "main"
                /\ points' = <<>>
                /\ srcIdx' = 1
                /\ sinkIdx' = 1
                /\ writes' = <<>>
                /\ origin' = <<>>
                /\ resp' = NoResponse
                /\ UNCHANGED exc
    /\ UNCHANGED <<args, disk, config_files, index, fileIdx, traceback_printed,
                   t, elapsed, slept>>

\* Lines 106-171: one source is collected; an exception of a query leaves
\* main and the pass loop.
CollectSource ==
    /\ pc = "main"
    /\ srcIdx <= Len(config.syncthings)
    /\ \E r \in Responses :
          LET got == Collect(config, config.syncthings[srcIdx], r)
          IN  /\ resp' = r
              /\ IF Propagates(got.raised)
                 THEN /\ Ends("crashed", got.raised)
                      /\ UNCHANGED <<points, origin, srcIdx, t>>
                 ELSE /\ points' = points \o got.points
                      /\ origin' = origin \o [k \in 1..Len(got.points) |-> srcIdx]
                      /\ srcIdx' = srcIdx + 1
                      /\ t' = t + r.dq
                      /\ UNCHANGED <<pc, exc>>
    /\ UNCHANGED <<args, disk, config_files, index, fileIdx, config, replaced, sinkIdx,
                   writes, traceback_printed, elapsed, slept>>

\* SourcesDone that holds as soon as one source has been collected.
SourcesDoneEarly == pc = "main" /\ srcIdx > 1

\* Line 173 is reached: the source loop has gone through every source.
SourcesDone == pc = "main" /\ srcIdx > Len(config.syncthings)

\* Lines 176-186: the batch is written to one sink.
SinkWrite ==
    /\ SourcesDone
    /\ ShouldSend(points)
    /\ sinkIdx <= Len(config.influxes)
    /\ \E ok \in BOOLEAN :
          /\ writes' = Append(writes, [influx_name |-> config.influxes[sinkIdx],
                                       points |-> points, ok |-> ok])
          /\ IF ok
             THEN UNCHANGED <<pc, exc, traceback_printed>> /\ sinkIdx' = sinkIdx + 1
             ELSE IF OnSendError(args.halt_on_send_error) = "raise"
             THEN Ends("crashed", "SendError") /\ UNCHANGED <<sinkIdx, traceback_printed>>
             ELSE /\ traceback_printed' = TRUE
                  /\ sinkIdx' = sinkIdx + 1
                  /\ UNCHANGED <<pc, exc>>
    /\ UNCHANGED <<args, disk, config_files, index, fileIdx, config, replaced, points,
                   origin, srcIdx, resp, t, elapsed, slept>>

\* Lines 173-174 and the end of the sink loop: main returns; its batch is
\* dropped and the for loop of line 239 goes on.
MainReturn ==
    /\ SourcesDone
    /\ ~ShouldSend(points) \/ sinkIdx > Len(config.influxes)
    /\ pc' = "files"
    /\ fileIdx' = fileIdx + 1
    /\ points' = <<>>
    /\ writes' = <<>>
    /\ origin' = <<>>
    /\ resp' = NoResponse
    /\ UNCHANGED <<args, disk, exc, config_files, index, config, replaced, srcIdx, sinkIdx,
                   traceback_printed, t, elapsed, slept>>

\* Lines 244-258: the pass is timed, counted and, unless it is the last
\* one, followed by the sleep.
PassEnd ==
    /\ pc = "files"
    /\ fileIdx > Len(config_files)
    /\ \E rest \in 0..MaxTick :
          /\ elapsed' = t + rest
          /\ index' = index + 1
          /\ slept' = SleepTime(args.wait, LastOne(args.count, index + 1), t + rest)
    /\ pc' = "while"
    /\ UNCHANGED <<args, disk, exc, config_files, fileIdx, config, replaced, points, srcIdx,
                   resp, sinkIdx, writes, origin, traceback_printed, t>>

\* Somebody rewrites, creates or removes, while the program runs, one of the
\* config files it reads (it looks at no other file).
EditFile ==
    /\ Running
    /\ \E p \in SeqRange(config_files), c \in Contents :
          /\ disk[p] # c
          /\ disk' = [disk EXCEPT ![p] = c]
    /\ UNCHANGED <<args, pc, exc, config_files, index, fileIdx, config, replaced, points,
                   srcIdx, resp, sinkIdx, writes, origin, traceback_printed, t,
                   elapsed, slept>>

Next ==
    \/ CheckArgs
    \/ PassStart
    \/ LoopExit
    \/ CheckIsFile
    \/ LoadConfig
    \/ CollectSource
    \/ SinkWrite
    \/ MainReturn
    \/ PassEnd
    \/ EditFile

Spec == Init /\ [][Next]_vars

\* ------------------------------------------------------------------ claims

\* The sinks written to since main was entered, in the order of the writes.
WriteNames == [i \in 1..Len(writes) |-> writes[i].influx_name]

Max(a, b) == IF a >= b THEN a ELSE b

\* C1: with halt-on-send-error off, a failed write never raises out of main;
\* the writes made so far are to the first sinks of the configuration set,
\* one each, in order, whatever their outcomes; and when main returns with a
\* non-empty batch every configured sink has had its write attempt.
C1_SinkFailureIsolated ==
    /\ [](~args.halt_on_send_error =>
            /\ exc # "SendError"
            /\ (pc = "main" => WriteNames = SubSeq(config.influxes, 1, sinkIdx - 1)))
    /\ [][(~args.halt_on_send_error /\ pc = "main" /\ pc' = "files" /\ points # <<>>)
            => WriteNames = config.influxes]_vars

\* C1 witness: with the flag off, the write to the first of two sinks failed
\* and the second sink was written to all the same.
C1_Witness ==
    /\ ~args.halt_on_send_error
    /\ pc = "main"
    /\ Len(config.influxes) = 2
    /\ Len(writes) = 2
    /\ ~writes[1].ok
    /\ writes[2].influx_name = config.influxes[2]

\* C2 (as claimed): when a source's topology or device-stats query raises,
\* the program goes on: main is still running and moves to the next source.
C2_SourceFailureIsolated ==
    resp.kind \in {"config_raises", "stats_raises"} => pc = "main"

\* C3: with halt-on-send-error on, a failed write is the last write of the
\* cycle and ends the program with the send error: the sinks written to are
\* the ones up to the failing one, no failure is swallowed, and nothing runs
\* after the failure.
C3_HaltOnSendError ==
    /\ [](args.halt_on_send_error =>
            /\ ~traceback_printed
            /\ WriteNames = SubSeq(config.influxes, 1, Len(writes))
            /\ \A i \in 1..Len(writes) :
                  ~writes[i].ok =>
                      (i = Len(writes) /\ pc = "crashed" /\ exc = "SendError"))
    /\ [][exc # "SendError"]_vars

\* C3 witness: with the flag on, the write to the first of two sinks failed;
\* the program has ended and the second sink got nothing.
C3_Witness ==
    /\ args.halt_on_send_error
    /\ pc = "crashed"
    /\ exc = "SendError"
    /\ Len(config.influxes) = 2
    /\ Len(writes) = 1
    /\ ~writes[1].ok

\* C4 (as claimed): the proto-tags of every configured source, and every
\* point of the batch, carry cfg_name equal to the name of the source.
C4_StaticTagsKeepIdentity ==
    /\ \A i \in 1..Len(config.syncthings) :
          InitialProtoTags(config.syncthings[i]).cfg_name = config.syncthings[i].name
    /\ \A i \in 1..Len(points) :
          points[i].tags.cfg_name = config.syncthings[origin[i]].name

\* C5: every point of the batch, device point or folder point, carries the
\* cfg_name of the proto-tags of its source.
C5_EntityTagsKeepIdentity ==
    /\ Len(origin) = Len(points)
    /\ \A i \in 1..Len(points) :
          points[i].tags.cfg_name =
              InitialProtoTags(config.syncthings[origin[i]]).cfg_name

\* C5 witness: the batch holds a device point whose name is the string
\* "cfg_name" and a folder point, both of a source with static tags.
C5_Witness ==
    /\ \E i \in 1..Len(points) :
          /\ points[i].measurement = config.measurements.devices
          /\ points[i].tags.name = "cfg_name"
          /\ DOMAIN config.syncthings[origin[i]].tags # {}
    /\ \E i \in 1..Len(points) :
          /\ points[i].measurement = config.measurements.folders
          /\ DOMAIN config.syncthings[origin[i]].tags # {}

\* C6 (as claimed): when a remote device of the topology has no entry in the
\* device stats (and every other query answers), the source's collection
\* does not fail: main is still running.
C6_MissingStatsSkipped ==
    (/\ resp.kind = "answers"
     /\ RemoteIds(resp.topo) \ DOMAIN resp.stats # {}
     /\ resp.complFails = {})
    => pc = "main"

\* C7 (as claimed): when the completion query of a folder raises (and every
\* other query answers), the source's collection does not fail: main is
\* still running.
C7_FailedFolderSkipped ==
    (/\ resp.kind = "answers"
     /\ RemoteIds(resp.topo) \subseteq DOMAIN resp.stats
     /\ resp.complFails # {})
    => pc = "main"

\* C8: an empty batch is never written: while the batch is empty no sink
\* has been written to, and no write carries an empty batch.
C8_EmptyBatchNotSent ==
    /\ points = <<>> => writes = <<>>
    /\ \A i \in 1..Len(writes) : writes[i].points # <<>>

\* C8 witness: every source of a configuration set with sinks has been
\* collected, none produced a point, and nothing was written.
C8_Witness ==
    /\ SourcesDone
    /\ Len(config.syncthings) > 0
    /\ Len(config.influxes) > 0
    /\ points = <<>>
    /\ writes = <<>>

\* C9 (as claimed): after a pass that is not the final one the program
\* sleeps for max(0, wait - elapsed).
C9_SleepsRemainingTime ==
    (index > 0 /\ ~LastOne(args.count, index))
    => slept = Max(0, args.wait - elapsed)

\* C10: after a pass that is not the final one and took at least the wait
\* interval, the program does not sleep.
C10_NoSleepAfterLongPass ==
    (index > 0 /\ ~LastOne(args.count, index) /\ elapsed >= args.wait)
    => slept = 0

\* C10 witness: the first of several passes took longer than the wait
\* interval and the second pass has started without a sleep.
C10_Witness ==
    /\ index = 1
    /\ ~LastOne(args.count, index)
    /\ elapsed > args.wait
    /\ slept = 0
    /\ pc = "files"

\* ------------------------------------------------------ claims, continued

\* The points of the batch that came from the source at position k.
SourceBatch(k) ==
    LET before == Cardinality({i \in 1..Len(origin) : origin[i] < k})
        own    == Cardinality({i \in 1..Len(origin) : origin[i] = k})
    IN  SubSeq(points, before + 1, before + own)

\* main is running and the source it collected last answered every query.
LastSourceAnswered == pc = "main" /\ srcIdx > 1 /\ resp.kind = "answers"

\* The devices of a topology other than the own device, in topology order.
RemoteSeq(topo) ==
    SelectSeq(topo.devices, LAMBDA d : d.deviceID # topo.defaults[1].deviceID)

\* What a failing source query raises.
SourceErrors == {"ConfigQueryError", "StatsQueryError", "KeyError", "CompletionError"}

\* C11: the program ends normally only with a positive count, after exactly
\* count passes and without a sleep after the last of them; with a positive
\* count it never runs more than count passes; with a negative count it
\* never ends normally and another pass can always start; a count of zero
\* is rejected before any pass starts.
C11_PassCount ==
    /\ pc = "done" => (args.count > 0 /\ index = args.count /\ slept = 0)
    /\ args.count > 0 => index <= args.count
    /\ (args.count > 0 /\ index = args.count) => (slept = 0 /\ pc \in {"while", "done"})
    /\ (args.count > 0 /\ index < args.count /\ pc = "while") => ENABLED PassStart
    /\ args.count < 0 => pc # "done"
    /\ (args.count < 0 /\ pc = "while" /\ index < MaxPasses) => ENABLED PassStart
    /\ args.count = 0 => (pc \in {"args", "usage_error"} /\ index = 0)

\* C11 witness: with a count of 2 the program has ended after 2 passes, the
\* last of them shorter than the wait interval, and did not sleep after it.
C11_Witness ==
    /\ pc = "done"
    /\ args.count = 2
    /\ index = 2
    /\ elapsed < args.wait
    /\ slept = 0

\* C12: whenever main is entered, the global config is what the file holds
\* at the moment it is opened, and it does not change while main runs.
C12_ConfigLoadedAfresh ==
    [][/\ (pc = "open" /\ pc' = "main")
            => config' = load_app_config(disk[config_files[fileIdx]])
       /\ pc = "main" => config' = config]_vars

\* C12 witness: the second pass runs on a configuration set other than the
\* one of the first pass, and its points carry the new measurement name.
C12_Witness ==
    /\ pc = "main"
    /\ index = 1
    /\ replaced = CfgA
    /\ config = CfgB
    /\ points # <<>>
    /\ points[1].measurement = CfgB.measurements.devices

\* C13 (as claimed): started with --config-dir and without --config (and
\* with a valid count and wait), the program passes its argument checks and
\* reaches the pass loop.
C13_ConfigDirStarts ==
    [][(/\ pc = "args"
        /\ args.config = None
        /\ args.config_dir # None
        /\ args.count # 0
        /\ args.wait > 0)
       => pc' = "while"]_vars

\* A batch without its fields: the measurement and the tags of each point.
StripTime(batch) ==
    [i \in 1..Len(batch) |->
        [measurement |-> batch[i].measurement, tags |-> batch[i].tags]]

\* The answers of a source that is in the same source-side state as when it
\* gave the answer r (same topology, same device-stats keys, same folders
\* failing) and is queried in another pass: at the same or a later wall
\* clock, its queries taking any time.
LaterNows == Nows \cup {13}
Recollections(r) ==
    {[r EXCEPT !.now = n, !.dq = q] : n \in LaterNows, q \in 0..MaxTick}

\* C14: collecting the source just collected once more, under the same
\* configuration and in the same source-side state but at any other clock
\* readings, yields as many points, in the same order, with the same
\* measurements and tags.
C14_PassIdempotent ==
    LastSourceAnswered =>
        \A r2 \in Recollections(resp) :
            LET again == Collect(config, config.syncthings[srcIdx - 1], r2)
            IN  /\ again.raised = "none"
                /\ StripTime(again.points) = StripTime(SourceBatch(srcIdx - 1))

\* C14 witness: the second pass runs on the configuration set of the first
\* and has collected device and folder points whose time-derived fields
\* another clock reading would change.
C14_Witness ==
    /\ LastSourceAnswered
    /\ index = 1
    /\ replaced = config
    /\ resp.topo = TopoFull
    /\ \E r2 \in Recollections(resp) :
          LET again == Collect(config, config.syncthings[srcIdx - 1], r2).points
          IN  /\ again[1].fields.last_seen_since_sec
                     # SourceBatch(srcIdx - 1)[1].fields.last_seen_since_sec
              /\ again[1].fields.q_elapsed # SourceBatch(srcIdx - 1)[1].fields.q_elapsed

\* C15: a sink is written to only once the source loop has gone through
\* every source; while main runs the batch only grows at its end, by one
\* source at a time, and not at all after the first write; writes are made
\* one at a time.
C15_CollectThenDispatch ==
    /\ [](writes # <<>> =>
            (pc \in {"main", "crashed"} /\ srcIdx = Len(config.syncthings) + 1))
    /\ [][(pc = "main" /\ pc' = "main") =>
            /\ Len(points') >= Len(points)
            /\ SubSeq(points', 1, Len(points)) = points
            /\ srcIdx' \in {srcIdx, srcIdx + 1}
            /\ (points' # points => srcIdx' = srcIdx + 1)
            /\ (writes # <<>> => (points' = points /\ srcIdx' = srcIdx))
            /\ Len(writes') \in {Len(writes), Len(writes) + 1}]_vars

\* C15 witness: a sink has been written to after both sources of the
\* configuration set gave their points.
C15_Witness ==
    /\ Len(config.syncthings) = 2
    /\ writes # <<>>
    /\ \E i \in 1..Len(origin) : origin[i] = 1
    /\ \E i \in 1..Len(origin) : origin[i] = 2

\* C16: every write carries the whole batch, no sink is written to twice,
\* the batch is in source order, and the points of the source collected
\* last are its remote devices in topology order followed by its folders
\* in topology order.
C16_WholeBatchInOrder ==
    /\ \A i \in 1..Len(writes) : writes[i].points = points
    /\ \A i, j \in 1..Len(writes) :
          i # j => writes[i].influx_name # writes[j].influx_name
    /\ \A i \in 1..(Len(origin) - 1) : origin[i] <= origin[i + 1]
    /\ LastSourceAnswered =>
          LET batch   == SourceBatch(srcIdx - 1)
              devices == RemoteSeq(resp.topo)
              folders == resp.topo.folders
          IN  /\ Len(batch) = Len(devices) + Len(folders)
              /\ \A i \in 1..Len(devices) :
                    /\ batch[i].measurement = config.measurements.devices
                    /\ batch[i].tags.id = devices[i].deviceID
              /\ \A i \in 1..Len(folders) :
                    /\ batch[Len(devices) + i].measurement = config.measurements.folders
                    /\ batch[Len(devices) + i].tags.id = folders[i].id

\* C16 witness: both sinks have been written to with a batch of two
\* sources, the second of them with two remote devices and two folders.
C16_Witness ==
    /\ Len(writes) = 2
    /\ Len(config.syncthings) = 2
    /\ resp.kind = "answers"
    /\ resp.topo = TopoFull
    /\ \E i \in 1..Len(origin) : origin[i] = 1

\* C17: the source collected last has as many device points as its topology
\* has devices other than the own one, none of them for the own device id,
\* and as many folder points as its topology has folders.
C17_PointCounts ==
    LastSourceAnswered =>
        LET batch == SourceBatch(srcIdx - 1)
            own   == resp.topo.defaults[1].deviceID
            devs  == {i \in 1..Len(batch) :
                        batch[i].measurement = config.measurements.devices}
            folds == {i \in 1..Len(batch) :
                        batch[i].measurement = config.measurements.folders}
        IN  /\ Cardinality(devs) =
                  Cardinality({i \in 1..Len(resp.topo.devices) :
                                  resp.topo.devices[i].deviceID # own})
            /\ \A i \in devs : batch[i].tags.id # own
            /\ Cardinality(folds) = Len(resp.topo.folders)

\* C17 witness: a topology that lists the own device among two remote ones
\* has been collected: two device points, none for the own device.
C17_Witness ==
    /\ LastSourceAnswered
    /\ resp.topo = TopoFull
    /\ Len(SourceBatch(srcIdx - 1)) = 4

\* C18 (as claimed): every point of the batch carries both my_id and
\* my_name in its tags, whatever topology its source returned.
C18_OwnIdAndNameOnEveryPoint ==
    \A i \in 1..Len(points) : {"my_id", "my_name"} \subseteq DOMAIN points[i].tags

\* C19: all points of one source carry the same q_elapsed, and for the
\* source collected last it is the time its queries took.
C19_OneElapsedPerSource ==
    /\ \A i, j \in 1..Len(points) :
          origin[i] = origin[j] =>
              points[i].fields.q_elapsed = points[j].fields.q_elapsed
    /\ LastSourceAnswered =>
          \A i \in 1..Len(SourceBatch(srcIdx - 1)) :
              SourceBatch(srcIdx - 1)[i].fields.q_elapsed = resp.dq

\* C19 witness: the batch holds device and folder points of two sources
\* whose queries took different times.
C19_Witness ==
    /\ LastSourceAnswered
    /\ resp.topo = TopoFull
    /\ \E i, j \in 1..Len(points) :
          /\ origin[i] = 1
          /\ origin[j] = 2
          /\ points[i].fields.q_elapsed # points[j].fields.q_elapsed

\* C20: while main runs, the source collected last raised nothing; a sink
\* is written to only after every source was collected; a raising source
\* query ends the program with nothing written, and nothing runs after it.
C20_AllOrNothing ==
    /\ [](/\ (pc = "main" /\ srcIdx > 1) =>
                Collect(config, config.syncthings[srcIdx - 1], resp).raised = "none"
          /\ writes # <<>> => srcIdx > Len(config.syncthings)
          /\ exc \in SourceErrors => (pc = "crashed" /\ writes = <<>>))
    /\ [][exc \notin SourceErrors]_vars

\* C20 witness: the second source raised after the first gave its points;
\* the program has ended and the points went to no sink.
C20_Witness ==
    /\ pc = "crashed"
    /\ exc = "KeyError"
    /\ srcIdx = 2
    /\ points # <<>>
    /\ writes = <<>>

====
